---------------------------- MODULE Spec2Model ----------------------------
(***************************************************************************)
(* The real-time distribution hub (websocket hub.go), the connection       *)
(* handler with its read and write pumps, its frame intake queue and its   *)
(* worker pool (websocket handler.go), and the pipeline-result producer    *)
(* (the Redis attention subscriber and its handler in main.go).            *)
(***************************************************************************)
EXTENDS Naturals, Integers, Sequences, FiniteSets, TLC

\* ------------------------------------------------------------------ bounds
\* Capacity of a client's outbound channel (256 in the source).
SendCap == 1
\* Capacity of the hub's broadcast channel (256 in the source).
BcastCap == 2
\* Number of result batches the pipeline producer publishes.
MaxMsgs == 3
\* Number of client messages of a non-frame type relayed to the room.
MaxRelay == 1
\* Capacity of the frame intake queue (100 in the source).
QueueCap == 2
\* Number of frame workers (5 in the source).
NumWorkers == 2
\* Number of frames submitted by clients.
MaxFrames == 3
\* Granularity of the clock, in milliseconds, and number of clock ticks.
TickMs == 1000
MaxTicks == 12
MaxChanges == 1
MaxChunks == 2
RlMax == 2
MaxReqs == 4

\* Connections are numbered in the order they are accepted (each gets a
\* fresh uuid in the source, so the numbering loses nothing), and the
\* meeting the first connection asks for is named m1.
Clients == {1, 2, 3}
Meetings == {"m1", "m2"}
FeedClients == {1, 2}
PoolClients == {1}
Workers == 1..NumWorkers
Frames == 1..MaxFrames
Chunks == 1..MaxChunks
RlKeys == {"ip1", "ip2"}
RlWindow == 2 * TickMs

\* Message types (hub.go const block).
MessageTypeFrame == "frame"
MessageTypeAttention == "attention"
MessageTypeAlert == "alert"
MessageTypeParticipant == "participant"
MessageTypeMeetingStatus == "meeting_status"

\* Types a connected client can put in a non-frame message it sends.
RelayTypes == {MessageTypeAttention, MessageTypeMeetingStatus}

\* The clock at the start (Date.now() and time.Now() are never zero).
StartTime == TickMs

\* 5*time.Second, in milliseconds.
SaveInterval == 5000
WindowSize == 60
EarThreshold == 25

NoMeeting == "none"
NoClient == 0
NoMsg == [type |-> "none", room |-> NoMeeting, src |-> 0, action |-> "none", id |-> 0]

VARIABLES
    \* --- connection handler, one goroutine pair per client
    pc,         \* position of HandleConnection/readPump of each client
    meeting,    \* Client.MeetingID
    connUp,     \* the websocket connection is usable (not lost, not closed)
    send,       \* Client.Send: buffered channel contents
    closed,     \* Client.Send has been closed
    relayMsg,   \* the message readPump is passing to BroadcastToMeeting
    wp,         \* position of writePump of each client
    lastOut,    \* id of the last pipeline batch written to the connection
    \* --- hub
    rooms,      \* Hub.rooms: meeting -> set of clients (Room.Clients)
    bq,         \* Hub.broadcast: buffered channel contents
    hubPc,      \* position of Hub.Run
    hubCl,      \* client received from register / unregister
    hubMsg,     \* RoomMessage received from broadcast
    hubTodo,    \* clients of the room the range loop has not visited yet
    hubSent,    \* clients the current broadcast logged "Sent message to"
    hubSkip,    \* clients the current broadcast logged "buffer full, skipping"
    \* --- pipeline result producer (the Redis subscriber goroutine)
    ppc,        \* position of the subscriber goroutine
    proom,      \* meeting of the batch it is broadcasting
    nProd,      \* number of batches it has taken so far
    nRelay,     \* number of client messages relayed so far
    \* --- frame intake and worker pool
    frameQ,     \* Handler.frameProcessChannel contents
    worker,     \* frame each worker is processing (0: waiting on the queue)
    fstate,     \* per frame: "new", "queued", "dropped", "proc", "ok", "failed"
    fowner,     \* FrameProcessRequest.Client
    procCount,  \* number of times processFrameAsync was started on a frame
    nextFrame,  \* number of frames submitted so far, plus 1
    lastSubmit, \* the last handleFrame call: [f, outcome, ret]
    \* --- sampled persistence (the throttle of the subscriber handler)
    now,          \* the clock, in milliseconds
    lastSaveTime, \* lastSaveTime: meeting -> time of its last triggered save
    saved,        \* per meeting, the times at which a save was triggered
    lastEvent,    \* the last input handled: [kind, m]
    \* --- dashboard alerts (MeetingPage) and the documented scorer
    alertCooldowns, \* alertCooldowns.current: key -> time of the last alert
    newAlerts,      \* the alerts generated for the last attention message
    ear_history,    \* PERCLOSCalculator.ear_history
    calc,           \* the last scorer call: its inputs and its result
    \* --- goroutines and services beside the hub
    writing,    \* the saveAttentionMetrics goroutines running: [m, t]
    rec,        \* the recording service and the dashboard's recorder
    rl          \* the rate limiter

hubVars == <<rooms, bq, hubPc, hubCl, hubMsg, hubTodo, hubSent, hubSkip>>
cliVars == <<pc, meeting, connUp, send, closed, relayMsg, wp, lastOut>>
prodVars == <<ppc, proom, nProd, nRelay>>
poolVars == <<frameQ, worker, fstate, fowner, procCount, nextFrame, lastSubmit>>
svcVars == <<writing, rec, rl>>
extVars == <<now, lastSaveTime, saved, lastEvent, alertCooldowns, newAlerts, ear_history, calc,
             svcVars>>
vars == <<hubVars, cliVars, prodVars, poolVars, extVars>>

\* ------------------------------------------------------------ hub: helpers
Msg(t, r, s, a, i) == [type |-> t, room |-> r, src |-> s, action |-> a, id |-> i]

\* A receive that takes the newest message of the channel instead of the oldest.
receiveNewest(q) == [msg |-> q[Len(q)], rest |-> SubSeq(q, 1, Len(q) - 1)]

\* case msg := <-h.broadcast: a Go channel is first-in first-out.
receive(q) == [msg |-> Head(q), rest |-> Tail(q)]

\* An addClient that inserts nothing.
addClientNothing(rs, c, m) == rs

\* addClient: look the room up, create it when absent, insert the client.
addClient(rs, c, m) ==
    IF m \in DOMAIN rs
    THEN [rs EXCEPT ![m] = @ \cup {c}]
    ELSE [x \in DOMAIN rs \cup {m} |-> IF x = m THEN {c} ELSE rs[x]]

\* A removeClient that closes the channel and leaves the client in its room.
removeClientCloseOnly(rs, c, m) == rs

\* A removeClient that leaves the emptied room in the map.
removeClientKeepRoom(rs, c, m) ==
    IF m \notin DOMAIN rs THEN rs ELSE [rs EXCEPT ![m] = @ \ {c}]

\* removeClient: when the room exists, delete the client from it and delete
\* the room when that leaves it empty.
removeClient(rs, c, m) ==
    IF m \notin DOMAIN rs
    THEN rs
    ELSE IF rs[m] \ {c} = {}
         THEN [x \in DOMAIN rs \ {m} |-> rs[x]]
         ELSE [rs EXCEPT ![m] = @ \ {c}]

\* A removeClient that never closes client.Send.
removeNeverCloses(rs, m) == FALSE

\* removeClient closes client.Send whenever the room exists.
removeCloses(rs, m) == m \in DOMAIN rs

\* A broadcast that ranges over the clients of every room.
allRoomClients(rs, m) == UNION {rs[x] : x \in DOMAIN rs}

\* The clients broadcastToRoom ranges over: room.Clients of the message's room.
roomClients(rs, m) == rs[m]

\* ------------------------------------------------------------ hub: Run loop
\* case client := <-h.register (unbuffered: the caller's Register returns here)
HubRecvRegister(c) ==
    /\ hubPc = "select"
    /\ pc[c] = "register"
    /\ hubPc' = "add"
    /\ hubCl' = c
    /\ pc' = [pc EXCEPT ![c] = "joined"]
    /\ UNCHANGED <<rooms, bq, hubMsg, hubTodo, hubSent, hubSkip>>
    /\ UNCHANGED <<meeting, connUp, send, closed, relayMsg, wp, lastOut>>
    /\ UNCHANGED <<prodVars, poolVars>>
    /\ UNCHANGED extVars

HubAddClient ==
    /\ hubPc = "add"
    /\ rooms' = addClient(rooms, hubCl, meeting[hubCl])
    /\ hubPc' = "select"
    /\ hubCl' = NoClient
    /\ UNCHANGED <<bq, hubMsg, hubTodo, hubSent, hubSkip>>
    /\ UNCHANGED <<cliVars, prodVars, poolVars>>
    /\ UNCHANGED extVars

\* case client := <-h.unregister
HubRecvUnregister(c) ==
    /\ hubPc = "select"
    /\ pc[c] = "unregister"
    /\ hubPc' = "remove"
    /\ hubCl' = c
    /\ pc' = [pc EXCEPT ![c] = "left"]
    /\ UNCHANGED <<rooms, bq, hubMsg, hubTodo, hubSent, hubSkip>>
    /\ UNCHANGED <<meeting, connUp, send, closed, relayMsg, wp, lastOut>>
    /\ UNCHANGED <<prodVars, poolVars>>
    /\ UNCHANGED extVars

\* removeClient; close of a closed channel panics.
HubRemoveClient ==
    /\ hubPc = "remove"
    /\ rooms' = removeClient(rooms, hubCl, meeting[hubCl])
    /\ IF removeCloses(rooms, meeting[hubCl])
       THEN IF closed[hubCl]
            THEN /\ hubPc' = "panic"
                 /\ UNCHANGED closed
            ELSE /\ hubPc' = "select"
                 /\ closed' = [closed EXCEPT ![hubCl] = TRUE]
       ELSE /\ hubPc' = "select"
            /\ UNCHANGED closed
    /\ hubCl' = NoClient
    /\ UNCHANGED <<bq, hubMsg, hubTodo, hubSent, hubSkip>>
    /\ UNCHANGED <<pc, meeting, connUp, send, relayMsg, wp, lastOut>>
    /\ UNCHANGED <<prodVars, poolVars>>
    /\ UNCHANGED extVars

\* A broadcastToRoom without the exists check: room is nil for a meeting with
\* no room and room.mu.RLock() dereferences it.
HubRecvBroadcastNoCheck ==
    /\ hubPc = "select"
    /\ bq # <<>>
    /\ bq' = receive(bq).rest
    /\ IF receive(bq).msg.room \in DOMAIN rooms
       THEN /\ hubPc' = "range"
            /\ hubMsg' = receive(bq).msg
            /\ hubTodo' = roomClients(rooms, receive(bq).msg.room)
       ELSE /\ hubPc' = "panic"
            /\ hubMsg' = receive(bq).msg
            /\ hubTodo' = {}
    /\ hubSent' = {}
    /\ hubSkip' = {}
    /\ UNCHANGED <<rooms, hubCl>>
    /\ UNCHANGED <<cliVars, prodVars, poolVars>>
    /\ UNCHANGED extVars

\* case msg := <-h.broadcast, then broadcastToRoom up to the range loop.
HubRecvBroadcast ==
    /\ hubPc = "select"
    /\ bq # <<>>
    /\ bq' = receive(bq).rest
    /\ IF receive(bq).msg.room \in DOMAIN rooms
       THEN /\ hubPc' = "range"
            /\ hubMsg' = receive(bq).msg
            /\ hubTodo' = roomClients(rooms, receive(bq).msg.room)
       ELSE /\ hubPc' = "select"
            /\ hubMsg' = NoMsg
            /\ hubTodo' = {}
    /\ hubSent' = {}
    /\ hubSkip' = {}
    /\ UNCHANGED <<rooms, hubCl>>
    /\ UNCHANGED <<cliVars, prodVars, poolVars>>
    /\ UNCHANGED extVars

\* A range loop whose send blocks until the channel has room (no default case).
HubSendBlocking(c) ==
    /\ hubPc = "range"
    /\ c \in hubTodo
    /\ ~closed[c]
    /\ Len(send[c]) < SendCap
    /\ hubTodo' = hubTodo \ {c}
    /\ send' = [send EXCEPT ![c] = Append(@, hubMsg)]
    /\ hubSent' = hubSent \cup {c}
    /\ UNCHANGED <<rooms, bq, hubPc, hubCl, hubMsg, hubSkip>>
    /\ UNCHANGED <<pc, meeting, connUp, closed, relayMsg, wp, lastOut>>
    /\ UNCHANGED <<prodVars, poolVars>>
    /\ UNCHANGED extVars

\* A range loop that returns at the first full channel.
HubSendAbort(c) ==
    /\ hubPc = "range"
    /\ c \in hubTodo
    /\ ~closed[c]
    /\ IF Len(send[c]) < SendCap
       THEN /\ send' = [send EXCEPT ![c] = Append(@, hubMsg)]
            /\ hubSent' = hubSent \cup {c}
            /\ hubTodo' = hubTodo \ {c}
            /\ UNCHANGED hubSkip
       ELSE /\ hubSkip' = hubSkip \cup {c}
            /\ hubTodo' = {}
            /\ UNCHANGED <<send, hubSent>>
    /\ UNCHANGED <<rooms, bq, hubPc, hubCl, hubMsg>>
    /\ UNCHANGED <<pc, meeting, connUp, closed, relayMsg, wp, lastOut>>
    /\ UNCHANGED <<prodVars, poolVars>>
    /\ UNCHANGED extVars

\* A range loop that evicts a client whose channel is full: closes its channel
\* and deletes it from the room.
HubSendEvict(c) ==
    /\ hubPc = "range"
    /\ c \in hubTodo
    /\ ~closed[c]
    /\ hubTodo' = hubTodo \ {c}
    /\ IF Len(send[c]) < SendCap
       THEN /\ send' = [send EXCEPT ![c] = Append(@, hubMsg)]
            /\ hubSent' = hubSent \cup {c}
            /\ UNCHANGED <<hubSkip, rooms, closed>>
       ELSE /\ hubSkip' = hubSkip \cup {c}
            /\ rooms' = [rooms EXCEPT ![hubMsg.room] = @ \ {c}]
            /\ closed' = [closed EXCEPT ![c] = TRUE]
            /\ UNCHANGED <<send, hubSent>>
    /\ UNCHANGED <<bq, hubPc, hubCl, hubMsg>>
    /\ UNCHANGED <<pc, meeting, connUp, relayMsg, wp, lastOut>>
    /\ UNCHANGED <<prodVars, poolVars>>
    /\ UNCHANGED extVars

\* One iteration of the range loop: select { case client.Send <- msg: default: }
\* A send on a closed channel panics.
HubSend(c) ==
    /\ hubPc = "range"
    /\ c \in hubTodo
    /\ hubTodo' = hubTodo \ {c}
    /\ IF closed[c]
       THEN /\ hubPc' = "panic"
            /\ UNCHANGED <<send, hubSent, hubSkip>>
       ELSE /\ hubPc' = "range"
            /\ IF Len(send[c]) < SendCap
               THEN /\ send' = [send EXCEPT ![c] = Append(@, hubMsg)]
                    /\ hubSent' = hubSent \cup {c}
                    /\ UNCHANGED hubSkip
               ELSE /\ hubSkip' = hubSkip \cup {c}
                    /\ UNCHANGED <<send, hubSent>>
    /\ UNCHANGED <<rooms, bq, hubCl, hubMsg>>
    /\ UNCHANGED <<pc, meeting, connUp, closed, relayMsg, wp, lastOut>>
    /\ UNCHANGED <<prodVars, poolVars>>
    /\ UNCHANGED extVars

\* The range loop is over: broadcastToRoom returns to the Run loop.
HubRangeDone ==
    /\ hubPc = "range"
    /\ hubTodo = {}
    /\ hubPc' = "select"
    /\ hubMsg' = NoMsg
    /\ hubSent' = {}
    /\ hubSkip' = {}
    /\ UNCHANGED <<rooms, bq, hubCl, hubTodo>>
    /\ UNCHANGED <<cliVars, prodVars, poolVars>>
    /\ UNCHANGED extVars

\* ------------------------------------------------- connection handler
\* HandleConnection up to h.hub.Register(client).
Connect(c, m) ==
    /\ pc[c] = "idle"
    /\ \A d \in Clients : d < c => pc[d] # "idle"
    /\ c = 1 => m = "m1"
    /\ pc' = [pc EXCEPT ![c] = "register"]
    /\ meeting' = [meeting EXCEPT ![c] = m]
    /\ connUp' = [connUp EXCEPT ![c] = TRUE]
    /\ UNCHANGED <<send, closed, relayMsg, wp, lastOut>>
    /\ UNCHANGED <<hubVars, prodVars, poolVars>>
    /\ UNCHANGED extVars

\* BroadcastToMeeting(joined) returns, go writePump, readPump starts.
ClientJoined(c) ==
    /\ pc[c] = "joined"
    /\ Len(bq) < BcastCap
    /\ bq' = Append(bq, Msg(MessageTypeParticipant, meeting[c], c, "joined", 0))
    /\ pc' = [pc EXCEPT ![c] = "read"]
    /\ wp' = [wp EXCEPT ![c] = "run"]
    /\ UNCHANGED <<rooms, hubPc, hubCl, hubMsg, hubTodo, hubSent, hubSkip>>
    /\ UNCHANGED <<meeting, connUp, send, closed, relayMsg, lastOut>>
    /\ UNCHANGED <<prodVars, poolVars>>
    /\ UNCHANGED extVars

\* readPump: ReadMessage returns an error (the peer went away, the network
\* failed, or the connection was closed by writePump); break; the deferred
\* function runs.
ClientReadErr(c) ==
    /\ pc[c] = "read"
    /\ pc' = [pc EXCEPT ![c] = "unregister"]
    /\ connUp' = [connUp EXCEPT ![c] = FALSE]
    /\ UNCHANGED <<meeting, send, closed, relayMsg, wp, lastOut>>
    /\ UNCHANGED <<hubVars, prodVars, poolVars>>
    /\ UNCHANGED extVars

\* readPump: json.Unmarshal of the message read fails; continue with the
\* next read.
ClientBadMessage(c) ==
    /\ pc[c] = "read"
    /\ connUp[c]
    /\ lastEvent' = [kind |-> "bad_client_msg", m |-> meeting[c]]
    /\ UNCHANGED <<now, lastSaveTime, saved, alertCooldowns, newAlerts, ear_history, calc, svcVars>>
    /\ UNCHANGED <<hubVars, cliVars, prodVars, poolVars>>

\* readPump: a parsed message of a type other than "frame" (default case).
ClientRelay(c, t) ==
    /\ pc[c] = "read"
    /\ connUp[c]
    /\ nRelay < MaxRelay
    /\ nRelay' = nRelay + 1
    /\ relayMsg' = [relayMsg EXCEPT ![c] = Msg(t, meeting[c], c, "relay", 0)]
    /\ pc' = [pc EXCEPT ![c] = "relay"]
    /\ UNCHANGED <<meeting, connUp, send, closed, wp, lastOut>>
    /\ UNCHANGED <<hubVars, ppc, proom, nProd, poolVars>>
    /\ UNCHANGED extVars

ClientRelayEnq(c) ==
    /\ pc[c] = "relay"
    /\ Len(bq) < BcastCap
    /\ bq' = Append(bq, relayMsg[c])
    /\ relayMsg' = [relayMsg EXCEPT ![c] = NoMsg]
    /\ pc' = [pc EXCEPT ![c] = "read"]
    /\ UNCHANGED <<rooms, hubPc, hubCl, hubMsg, hubTodo, hubSent, hubSkip>>
    /\ UNCHANGED <<meeting, connUp, send, closed, wp, lastOut>>
    /\ UNCHANGED <<prodVars, poolVars>>
    /\ UNCHANGED extVars

\* Deferred function after Unregister returned: BroadcastToMeeting(left),
\* client.Conn.Close().
ClientLeft(c) ==
    /\ pc[c] = "left"
    /\ Len(bq) < BcastCap
    /\ bq' = Append(bq, Msg(MessageTypeParticipant, meeting[c], c, "left", 0))
    /\ connUp' = [connUp EXCEPT ![c] = FALSE]
    /\ pc' = [pc EXCEPT ![c] = "done"]
    /\ UNCHANGED <<rooms, hubPc, hubCl, hubMsg, hubTodo, hubSent, hubSkip>>
    /\ UNCHANGED <<meeting, send, closed, relayMsg, wp, lastOut>>
    /\ UNCHANGED <<prodVars, poolVars>>
    /\ UNCHANGED extVars

\* A caller of the hub's Register or Unregister other than the connection
\* handler: any client value, registered or not, in any order.  The call is
\* taken by the Run loop (HubRecvRegister, HubRecvUnregister).
HubCall(c, m, op) ==
    /\ pc[c] \in {"idle", "joined", "left"}
    /\ op \in {"register", "unregister"}
    /\ meeting' = [meeting EXCEPT ![c] = IF pc[c] = "idle" THEN m ELSE @]
    /\ pc' = [pc EXCEPT ![c] = op]
    /\ UNCHANGED <<connUp, send, closed, relayMsg, wp, lastOut>>
    /\ UNCHANGED <<hubVars, prodVars, poolVars>>
    /\ UNCHANGED extVars

\* ------------------------------------------------------------ writePump
\* for message := range client.Send: a message is received and WriteMessage
\* succeeds.
WpWrite(c) ==
    /\ wp[c] = "run"
    /\ send[c] # <<>>
    /\ connUp[c]
    /\ lastOut' = [lastOut EXCEPT ![c] =
                     IF Head(send[c]).src = NoClient THEN Head(send[c]).id ELSE @]
    /\ send' = [send EXCEPT ![c] = Tail(@)]
    /\ UNCHANGED <<pc, meeting, connUp, closed, relayMsg, wp>>
    /\ UNCHANGED <<hubVars, prodVars, poolVars>>
    /\ UNCHANGED extVars

\* A message is received and WriteMessage fails: return, defer Conn.Close().
WpWriteErr(c) ==
    /\ wp[c] = "run"
    /\ send[c] # <<>>
    /\ send' = [send EXCEPT ![c] = Tail(@)]
    /\ wp' = [wp EXCEPT ![c] = "done"]
    /\ connUp' = [connUp EXCEPT ![c] = FALSE]
    /\ UNCHANGED <<pc, meeting, closed, relayMsg, lastOut>>
    /\ UNCHANGED <<hubVars, prodVars, poolVars>>
    /\ UNCHANGED extVars

\* The channel is closed and drained: the loop ends, defer Conn.Close().
WpChanClosed(c) ==
    /\ wp[c] = "run"
    /\ send[c] = <<>>
    /\ closed[c]
    /\ wp' = [wp EXCEPT ![c] = "done"]
    /\ connUp' = [connUp EXCEPT ![c] = FALSE]
    /\ UNCHANGED <<pc, meeting, send, closed, relayMsg, lastOut>>
    /\ UNCHANGED <<hubVars, prodVars, poolVars>>
    /\ UNCHANGED extVars

\* ------------------------------------------------ pipeline result producer
\* A handler that broadcasts whatever uuid.Parse and json.Unmarshal returned.
handlerAcceptsAll(idOk, payloadOk) == TRUE

\* The handler returns early when uuid.Parse(meetingID) fails or when
\* json.Unmarshal(result, &facesArray) fails.
handlerAccepts(idOk, payloadOk) == idOk /\ payloadOk

\* uuid.Parse: the strings that are a uuid are those naming a meeting.  The
\* pipeline publishes under the meeting_id processFrameAsync gave it, which is
\* MeetingID.String(), so a meeting comes under one spelling.
uuidParseOk(str) == str \in Meetings

\* A channel suffix that is no uuid.
InvalidId == "not-a-uuid"

\* The subscriber goroutine takes the next result, published on the channel
\* of str, and calls the handler: it returns early on a string that is no
\* uuid or a payload that is no array of face objects, and calls
\* BroadcastAttentionResult otherwise.
\* lastEvent records what the message was.
ProducerCall(str, payloadOk) ==
    /\ ppc = "idle"
    /\ IF handlerAccepts(uuidParseOk(str), payloadOk)
       THEN /\ nProd < MaxMsgs
            /\ nProd' = nProd + 1
            /\ proom' = str
            /\ ppc' = "send"
       ELSE UNCHANGED <<nProd, proom, ppc>>
    /\ lastEvent' = [kind |-> IF uuidParseOk(str) /\ payloadOk THEN "result" ELSE "bad_result",
                     m |-> str]
    /\ UNCHANGED <<now, lastSaveTime, saved, alertCooldowns, newAlerts, ear_history, calc, svcVars>>
    /\ UNCHANGED <<nRelay, hubVars, cliVars, poolVars>>

\* h.broadcast <- &RoomMessage{...} goes through: BroadcastAttentionResult
\* returns and the handler goes on to the sampling of the save.
ProducerEnq ==
    /\ ppc = "send"
    /\ Len(bq) < BcastCap
    /\ bq' = Append(bq, Msg(MessageTypeAttention, proom, NoClient, "result", nProd))
    /\ ppc' = "throttle"
    /\ UNCHANGED <<rooms, hubPc, hubCl, hubMsg, hubTodo, hubSent, hubSkip>>
    /\ UNCHANGED <<proom, nProd, nRelay, cliVars, poolVars>>
    /\ UNCHANGED extVars

\* A sampling with one last-save time for all the meetings together.
shouldSaveAnyMeeting(lst, m, t) ==
    \/ DOMAIN lst = {}
    \/ \A x \in DOMAIN lst : t - lst[x] >= SaveInterval

\* lastSave, exists := lastSaveTime[meetingID];
\* shouldSave := !exists || time.Since(lastSave) >= 5*time.Second
shouldSave(lst, m, t) ==
    \/ m \notin DOMAIN lst
    \/ t - lst[m] >= SaveInterval

\* lastSaveTime[meetingID] = time.Now()
setLastSave(lst, m, t) == [x \in DOMAIN lst \cup {m} |-> IF x = m THEN t ELSE lst[x]]

\* A handler that writes the rows itself: it goes on only when no write is
\* under way.
ProducerThrottleSync ==
    /\ ppc = "throttle"
    /\ writing = {}
    /\ IF shouldSave(lastSaveTime, proom, now)
       THEN /\ lastSaveTime' = setLastSave(lastSaveTime, proom, now)
            /\ saved' = [saved EXCEPT ![proom] = Append(@, now)]
            /\ writing' = writing \cup {[m |-> proom, t |-> now]}
       ELSE UNCHANGED <<lastSaveTime, saved, writing>>
    /\ ppc' = "idle"
    /\ proom' = NoMeeting
    /\ UNCHANGED <<nProd, nRelay, now, lastEvent, alertCooldowns, newAlerts, ear_history, calc, rec, rl>>
    /\ UNCHANGED <<hubVars, cliVars, poolVars>>

\* The rest of the handler, under saveMutex: sample the save, and start
\* saveAttentionMetrics in its own goroutine when the sample is taken.
ProducerThrottle ==
    /\ ppc = "throttle"
    /\ IF shouldSave(lastSaveTime, proom, now)
       THEN /\ lastSaveTime' = setLastSave(lastSaveTime, proom, now)
            /\ saved' = [saved EXCEPT ![proom] = Append(@, now)]
            /\ writing' = writing \cup {[m |-> proom, t |-> now]}
       ELSE UNCHANGED <<lastSaveTime, saved, writing>>
    /\ ppc' = "idle"
    /\ proom' = NoMeeting
    /\ UNCHANGED <<nProd, nRelay, now, lastEvent, alertCooldowns, newAlerts, ear_history, calc, rec, rl>>
    /\ UNCHANGED <<hubVars, cliVars, poolVars>>

\* A saveAttentionMetrics goroutine returns: its rows are written, or
\* db.Create failed and the failure was logged.
SaveReturns(w) ==
    /\ w \in writing
    /\ writing' = writing \ {w}
    /\ UNCHANGED <<now, lastSaveTime, saved, lastEvent, alertCooldowns, newAlerts, ear_history, calc,
                   rec, rl>>
    /\ UNCHANGED <<hubVars, cliVars, prodVars, poolVars>>

\* Time passes.
Tick ==
    /\ now < StartTime + MaxTicks * TickMs
    /\ now' = now + TickMs
    /\ UNCHANGED <<lastSaveTime, saved, lastEvent, alertCooldowns, newAlerts, ear_history, calc, svcVars>>
    /\ UNCHANGED <<hubVars, cliVars, prodVars, poolVars>>

\* ------------------------------------------- frame intake and worker pool
\* An intake that makes room for the new frame by discarding the oldest.
trySendEvict(q, f) == IF Len(q) < QueueCap THEN Append(q, f) ELSE Append(Tail(q), f)

\* select { case h.frameProcessChannel <- req: default: }: the queue after the
\* attempt to put frame f in it.
trySend(q, f) == IF Len(q) < QueueCap THEN Append(q, f) ELSE q

\* handleFrame has no result: nothing is returned or sent to the submitter.
handleFrameResult(accepted) == "none"

\* readPump receives a "frame" message whose data holds a string frame:
\* handleFrame queues it or drops it.
ClientFrame(c) ==
    /\ pc[c] = "read"
    /\ connUp[c]
    /\ nextFrame <= MaxFrames
    /\ nextFrame' = nextFrame + 1
    /\ frameQ' = trySend(frameQ, nextFrame)
    /\ fowner' = [fowner EXCEPT ![nextFrame] = c]
    /\ fstate' = [fstate EXCEPT ![nextFrame] =
                    IF Len(frameQ) < QueueCap THEN "queued" ELSE "dropped"]
    /\ lastSubmit' = [f |-> nextFrame,
                      outcome |-> IF Len(frameQ) < QueueCap THEN "queued" ELSE "dropped",
                      ret |-> handleFrameResult(Len(frameQ) < QueueCap)]
    /\ UNCHANGED <<worker, procCount>>
    /\ UNCHANGED <<hubVars, cliVars, prodVars>>
    /\ UNCHANGED extVars

\* readPump receives a "frame" message whose data is not an object or holds
\* no string frame: handleFrame logs and returns.
ClientFrameInvalid(c) ==
    /\ pc[c] = "read"
    /\ connUp[c]
    /\ lastSubmit' = [f |-> 0, outcome |-> "invalid", ret |-> handleFrameResult(FALSE)]
    /\ UNCHANGED <<frameQ, worker, fstate, fowner, procCount, nextFrame>>
    /\ UNCHANGED <<hubVars, cliVars, prodVars>>
    /\ UNCHANGED extVars

\* A worker that abandons the frames of a client that has disconnected.
WorkerTakeCancelling(w) ==
    /\ worker[w] = 0
    /\ frameQ # <<>>
    /\ frameQ' = Tail(frameQ)
    /\ IF connUp[fowner[Head(frameQ)]]
       THEN /\ worker' = [worker EXCEPT ![w] = Head(frameQ)]
            /\ fstate' = [fstate EXCEPT ![Head(frameQ)] = "proc"]
            /\ procCount' = [procCount EXCEPT ![Head(frameQ)] = @ + 1]
       ELSE /\ fstate' = [fstate EXCEPT ![Head(frameQ)] = "cancelled"]
            /\ UNCHANGED <<worker, procCount>>
    /\ UNCHANGED <<fowner, nextFrame, lastSubmit>>
    /\ UNCHANGED <<hubVars, cliVars, prodVars>>
    /\ UNCHANGED extVars

\* frameProcessWorker: for req := range h.frameProcessChannel, then
\* processFrameAsync(req) starts.
WorkerTake(w) ==
    /\ worker[w] = 0
    /\ frameQ # <<>>
    /\ worker' = [worker EXCEPT ![w] = Head(frameQ)]
    /\ frameQ' = Tail(frameQ)
    /\ fstate' = [fstate EXCEPT ![Head(frameQ)] = "proc"]
    /\ procCount' = [procCount EXCEPT ![Head(frameQ)] = @ + 1]
    /\ UNCHANGED <<fowner, nextFrame, lastSubmit>>
    /\ UNCHANGED <<hubVars, cliVars, prodVars>>
    /\ UNCHANGED extVars

\* A worker whose goroutine ends with the frame that failed.
WorkerDoneDies(w, ok) ==
    /\ worker[w] > 0
    /\ fstate' = [fstate EXCEPT ![worker[w]] = IF ok THEN "ok" ELSE "failed"]
    /\ worker' = [worker EXCEPT ![w] = IF ok THEN 0 ELSE 0 - 1]
    /\ UNCHANGED <<frameQ, fowner, procCount, nextFrame, lastSubmit>>
    /\ UNCHANGED <<hubVars, cliVars, prodVars>>
    /\ UNCHANGED extVars

\* processFrameAsync returns: the pipeline answered 200 (ok), or the request
\* could not be built, failed, timed out or was answered with another status.
WorkerDone(w, ok) ==
    /\ worker[w] # 0
    /\ fstate' = [fstate EXCEPT ![worker[w]] = IF ok THEN "ok" ELSE "failed"]
    /\ worker' = [worker EXCEPT ![w] = 0]
    /\ UNCHANGED <<frameQ, fowner, procCount, nextFrame, lastSubmit>>
    /\ UNCHANGED <<hubVars, cliVars, prodVars>>
    /\ UNCHANGED extVars

\* ------------------------------------------- dashboard alerts (MeetingPage)
\* A face of an attention message: its track id, its attention_score
\* (absent or a number), gaze.is_looking_at_camera ("absent" when the face
\* has no gaze), head_pose.yaw (absent or degrees) and blink.is_drowsy.
Absent == [some |-> FALSE, v |-> 0]
Some(x) == [some |-> TRUE, v |-> x]
Tracks == {"t1", "t2"}
Flags == {"absent", "true", "false"}
FaceScores == {Absent, Some(39), Some(40)}
FaceYaws == {Absent, Some(0), Some(30), Some(31), Some(0 - 31)}
Faces == [track : Tracks, score : FaceScores, gaze : Flags, yaw : FaceYaws, drowsy : Flags]
\* The faces of track t1 without head pose, with a score, a gaze and a
\* drowsiness flag.
PlainFaces == {f \in Faces : f.track = "t1" /\ f.score # Absent /\ f.gaze # "absent"
                              /\ f.yaw = Absent /\ f.drowsy # "absent"}

TriggerFaces == {f \in Faces : f.track = "t1"} \cup
                {[f EXCEPT !.track = "t2"] : f \in PlainFaces}

Abs(x) == IF x < 0 THEN 0 - x ELSE x

\* const attentionScore = result.attention_score || 0
attentionScoreOf(f) == IF f.score.some THEN f.score.v ELSE 0

\* A looking-away test with the documented head_yaw threshold of 45 degrees.
isLookingAway45(f) ==
    \/ f.gaze = "false"
    \/ (f.yaw.some /\ f.yaw.v # 0 /\ Abs(f.yaw.v) > 45)

\* result.gaze?.is_looking_at_camera === false ||
\*   (result.head_pose?.yaw && Math.abs(result.head_pose.yaw) > 30)
isLookingAway(f) ==
    \/ f.gaze = "false"
    \/ (f.yaw.some /\ f.yaw.v # 0 /\ Abs(f.yaw.v) > 30)

\* result.blink?.is_drowsy === true
isDrowsy(f) == f.drowsy = "true"

\* A low-attention test that ignores the other two alert types.
lowAttentionAlone(f) == attentionScoreOf(f) < 40

\* attentionScore < 40 && !isDrowsy && !isLookingAway
lowAttention(f) == attentionScoreOf(f) < 40 /\ ~isDrowsy(f) /\ ~isLookingAway(f)

\* The cooldown key suffix, the alert_type and the severity of each alert,
\* and the cooldown the code compares with, in milliseconds.
AlertKeys == {"drowsy", "looking_away", "low_attention"}
alertTypeOf(k) == IF k = "low_attention" THEN "not_attentive" ELSE k
severityOf(k) ==
    IF k = "drowsy" THEN "critical" ELSE IF k = "looking_away" THEN "warning" ELSE "info"
cooldownOf(k) == IF k = "low_attention" THEN 10000 ELSE 5000

triggers(f, k) ==
    IF k = "drowsy" THEN isDrowsy(f)
    ELSE IF k = "looking_away" THEN isLookingAway(f)
    ELSE lowAttention(f)

\* A cooldown test that lets an alert through at exactly the cooldown.
cooldownOverInclusive(cd, key, t, k) ==
    \/ key \notin DOMAIN cd
    \/ cd[key] = 0
    \/ t - cd[key] >= cooldownOf(k)

\* !alertCooldowns.current[key] || now - alertCooldowns.current[key] > cooldown
cooldownOver(cd, key, t, k) ==
    \/ key \notin DOMAIN cd
    \/ cd[key] = 0
    \/ t - cd[key] > cooldownOf(k)

\* `${trackId}-` + suffix: no two pairs of a track and a suffix give one key.
keyOf(tr, k) == <<tr, k>>

\* The alert kinds generated for face f.
fires(cd, f, t) ==
    {k \in AlertKeys : triggers(f, k) /\ cooldownOver(cd, keyOf(f.track, k), t, k)}

\* The 'attention' handler on a message with the one face f: the alerts of
\* the face are generated and their cooldown entries are set to now.
Attention(f) ==
    /\ alertCooldowns' =
          [key \in DOMAIN alertCooldowns \cup {keyOf(f.track, k) : k \in fires(alertCooldowns, f, now)} |->
              IF key \in {keyOf(f.track, k) : k \in fires(alertCooldowns, f, now)}
              THEN now ELSE alertCooldowns[key]]
    /\ newAlerts' = {[track |-> f.track, alert_type |-> alertTypeOf(k), severity |-> severityOf(k)] :
                        k \in fires(alertCooldowns, f, now)}
    /\ calc' = [op |-> "attention", face |-> f,
                looking |-> isLookingAway(f), drowsy |-> isDrowsy(f), low |-> lowAttention(f)]
    /\ UNCHANGED <<now, lastSaveTime, saved, lastEvent, ear_history, svcVars>>
    /\ UNCHANGED <<hubVars, cliVars, prodVars, poolVars>>

\* ------------------------------------ the documented scorer (fixed point)
\* Angles are whole degrees, gaze coordinates and EAR are hundredths, and a
\* score in [0, 1] is an integer number of ten-thousandths.  A feature that
\* is absent is None; a Python operation on None raises TypeError, which is
\* the result Failed.
Failed == [ok |-> FALSE, v |-> 0]
Ok(x) == [ok |-> TRUE, v |-> x]

Min(a, b) == IF a < b THEN a ELSE b
Max(a, b) == IF a > b THEN a ELSE b

\* The integer square root, by bisection: the r with r*r <= x < (r+1)*(r+1).
RECURSIVE SqrtBetween(_, _, _)
SqrtBetween(x, lo, hi) ==
    IF lo >= hi THEN lo
    ELSE IF ((lo + hi + 1) \div 2) * ((lo + hi + 1) \div 2) <= x
         THEN SqrtBetween(x, (lo + hi + 1) \div 2, hi)
         ELSE SqrtBetween(x, lo, ((lo + hi + 1) \div 2) - 1)

\* Arguments stay below 30000 squared, which keeps the squares in range.
Sqrt(x) == SqrtBetween(x, 0, Min(x, 30000))

\* A head pose score with the two weights exchanged.
head_pose_score_swapped(yaw, pitch) ==
    IF ~yaw.some \/ ~pitch.some THEN Failed
    ELSE Ok(Max(0, 10000 - (Min((Abs(yaw.v) * 10000) \div 30, 10000) * 4
                            + Min((Abs(pitch.v) * 10000) \div 25, 10000) * 6) \div 10))

\* calculate_head_pose_score: 1 - (0.6 * min(|yaw| / 30, 1) + 0.4 * min(|pitch| / 25, 1)),
\* not below 0.
calculate_head_pose_score(yaw, pitch) ==
    IF ~yaw.some \/ ~pitch.some THEN Failed
    ELSE Ok(Max(0, 10000 - (Min((Abs(yaw.v) * 10000) \div 30, 10000) * 6
                            + Min((Abs(pitch.v) * 10000) \div 25, 10000) * 4) \div 10))

\* calculate_gaze_score: 1 - min(sqrt(x^2 + y^2) / 0.3, 1), not below 0.
calculate_gaze_score(gaze) ==
    IF ~gaze.some THEN Failed
    ELSE Ok(Max(0, 10000 - Min((Sqrt((gaze.v[1] * gaze.v[1] + gaze.v[2] * gaze.v[2]) * 10000)
                                  * 10000) \div 3000, 10000)))

\* eye_score = min(1.0, ear / 0.25) if ear > 0.15 else 0.0
eye_score(ear) ==
    IF ~ear.some THEN Failed
    ELSE Ok(IF ear.v > 15 THEN Min(10000, (ear.v * 10000) \div 25) ELSE 0)

\* presence_score = 1.0 if is_present else 0.0
presence_score(is_present) == IF is_present THEN 10000 ELSE 0

\* AttentionScorer.calculate: round(100 * weighted sum, 2), in hundredths of
\* a percent.
calculate(gaze_score, head_pose_score, ear, is_present) ==
    IF ~gaze_score.ok \/ ~head_pose_score.ok \/ ~eye_score(ear).ok THEN Failed
    ELSE Ok((35 * gaze_score.v + 30 * head_pose_score.v + 20 * eye_score(ear).v
             + 15 * presence_score(is_present)) \div 100)

\* The feature records the scorer is called on.
ScoreYaws == {Absent, Some(0), Some(15), Some(30), Some(40), Some(0 - 40), Some(90)}
ScorePitches == {Absent, Some(0), Some(5), Some(25), Some(0 - 30)}
ScoreGazes == {Absent, Some(<<0, 0>>), Some(<<5, 2>>), Some(<<30, 0>>), Some(<<0 - 100, 100>>)}
ScoreEars == {Absent, Some(0), Some(15), Some(16), Some(25), Some(28), Some(40)}
FeatureRecords == [yaw : ScoreYaws, pitch : ScorePitches, gaze : ScoreGazes,
                   ear : ScoreEars, is_present : BOOLEAN]

\* The scorer is applied to the feature record drawn at the start.
Score ==
    /\ calc.op = "features"
    /\ calc' = [op |-> "score", in |-> calc.in,
                head |-> calculate_head_pose_score(calc.in.yaw, calc.in.pitch),
                gaze |-> calculate_gaze_score(calc.in.gaze),
                eye |-> eye_score(calc.in.ear),
                presence |-> presence_score(calc.in.is_present),
                value |-> calculate(calculate_gaze_score(calc.in.gaze),
                                    calculate_head_pose_score(calc.in.yaw, calc.in.pitch),
                                    calc.in.ear, calc.in.is_present)]
    /\ UNCHANGED <<now, lastSaveTime, saved, lastEvent, alertCooldowns, newAlerts, ear_history, svcVars>>
    /\ UNCHANGED <<hubVars, cliVars, prodVars, poolVars>>

\* ------------------------------------------------- PERCLOSCalculator
\* EAR samples are hundredths: eyes closed (0.10), at the threshold (0.25)
\* and open (0.30).
EarSamples == {10, 25, 30}

\* The number of places where consecutive samples differ.
Changes(q) == Cardinality({i \in 1..(Len(q) - 1) : q[i] # q[i + 1]})

\* deque(maxlen = window_size).append: the oldest sample leaves a full window.
dequeAppend(q, e) ==
    IF Len(q) < WindowSize THEN Append(q, e) ELSE Append(Tail(q), e)

\* closed_frames = sum(1 for e in ear_history if e < EAR_THRESHOLD)
closed_frames(q) == Cardinality({i \in 1..Len(q) : q[i] < EarThreshold})

\* A drowsiness test that also holds at 80 percent.
is_drowsy_inclusive(nclosed, len) == nclosed * 10 >= 8 * len

\* is_drowsy: perclos > 0.8, with perclos the quotient nclosed / len.  For
\* len up to 60 the double nclosed / len exceeds the double 0.8 exactly when
\* the fraction exceeds 4/5.
is_drowsy(nclosed, len) == nclosed * 10 > 8 * len

\* update(ear), followed by is_drowsy on the returned perclos.
Update(e) ==
    /\ Changes(dequeAppend(ear_history, e)) <= MaxChanges
    /\ ear_history' = dequeAppend(ear_history, e)
    /\ calc' = [op |-> "perclos",
                closed |-> closed_frames(dequeAppend(ear_history, e)),
                len |-> Len(dequeAppend(ear_history, e)),
                drowsy |-> is_drowsy(closed_frames(dequeAppend(ear_history, e)),
                                     Len(dequeAppend(ear_history, e)))]
    /\ UNCHANGED <<now, lastSaveTime, saved, lastEvent, alertCooldowns, newAlerts, svcVars>>
    /\ UNCHANGED <<hubVars, cliVars, prodVars, poolVars>>

\* ------------------------------- sub-scores stored and charted per face
\* A face of a result, as far as the sub-scores read it: the gaze's
\* is_looking_at_camera and the head pose's <<yaw, pitch>> in degrees, either
\* of which may be absent.  Sub-scores are tenths of a point.
PoseYaws == {0, 10, 40, 0 - 40, 90}
PosePitches == {0, 5, 0 - 30, 90}
MetricFaces == [gaze : Flags, pose : {Absent} \cup {Some(<<y, p>>) : y \in PoseYaws, p \in PosePitches}]

\* saveAttentionMetrics, GazeScore: 50 when the gaze says the face looks
\* away, 100 otherwise; isLookingAway stays false without a gaze.
savedGazeScore(f) == IF f.gaze = "false" THEN 500 ELSE 1000

\* saveAttentionMetrics, HeadPoseScore: 100 unless a head pose is there, then
\* 100 - (|yaw| + |pitch|) / 2, not below 0.
savedHeadPoseScore(f) ==
    IF ~f.pose.some THEN 1000
    ELSE Max(0, 1000 - (Abs(f.pose.v[1]) + Abs(f.pose.v[2])) * 5)

\* MeetingPage chart, gazeScore: is_looking_at_camera ? 100 : 50
chartGazeScore(f) == IF f.gaze = "true" THEN 1000 ELSE 500

\* MeetingPage chart, headPoseScore: head_pose ? max(0, 100 - |yaw| * 2) : 0
chartHeadPoseScore(f) ==
    IF ~f.pose.some THEN 0 ELSE Max(0, 1000 - Abs(f.pose.v[1]) * 20)

\* One face of a result is written as an attention metric row.
SaveMetric(f) ==
    /\ calc' = [op |-> "metric", face |-> f,
                gazeScore |-> savedGazeScore(f), headPoseScore |-> savedHeadPoseScore(f)]
    /\ UNCHANGED <<now, lastSaveTime, saved, lastEvent, alertCooldowns, newAlerts, ear_history, svcVars>>
    /\ UNCHANGED <<hubVars, cliVars, prodVars, poolVars>>

\* The first face of a result is added to the dashboard's chart.
ChartPoint(f) ==
    /\ calc' = [op |-> "chart", face |-> f,
                gazeScore |-> chartGazeScore(f), headPoseScore |-> chartHeadPoseScore(f)]
    /\ UNCHANGED <<now, lastSaveTime, saved, lastEvent, alertCooldowns, newAlerts, ear_history, svcVars>>
    /\ UNCHANGED <<hubVars, cliVars, prodVars, poolVars>>

\* ------------------------------------------------- recording service
\* One recording.  rec.status is the row's status ("none" before the row
\* exists), rec.file the chunks in the file in the order written,
\* rec.file_size the row's file_size (every chunk has size 1), rec.app the
\* position of the AppendChunk request carrying each chunk, rec.comp the
\* position of the CompleteRecording request and rec.fs the size it read;
\* rec.recorder and rec.emitted are the dashboard's MediaRecorder.
RecOnly ==
    /\ UNCHANGED <<now, lastSaveTime, saved, lastEvent, alertCooldowns, newAlerts, ear_history, calc,
                   writing, rl>>
    /\ UNCHANGED <<hubVars, cliVars, prodVars, poolVars>>

\* StartRecording: an empty file and a row with status "recording".
StartRecording ==
    /\ rec.status = "none"
    /\ rec' = [rec EXCEPT !.status = "recording"]
    /\ RecOnly

\* A client of the API sends chunk k to the append endpoint.
ApiAppend(k) ==
    /\ rec.status # "none"
    /\ rec.app[k] = "none"
    /\ rec' = [rec EXCEPT !.app[k] = "sent"]
    /\ RecOnly

\* A client of the API sends the completion request.
ApiComplete ==
    /\ rec.status # "none"
    /\ rec.comp = "none"
    /\ rec' = [rec EXCEPT !.comp = "sent"]
    /\ RecOnly

\* AppendChunk: the row is read and its status tested.
AppendLookup(k) ==
    /\ rec.app[k] = "sent"
    /\ rec' = [rec EXCEPT !.app[k] = IF rec.status = "recording" THEN "checked" ELSE "rejected"]
    /\ RecOnly

\* AppendChunk: the chunk is written at the end of the file.
AppendWrite(k) ==
    /\ rec.app[k] = "checked"
    /\ rec' = [rec EXCEPT !.file = Append(@, k), !.app[k] = "written"]
    /\ RecOnly

\* AppendChunk: UPDATE file_size = file_size + written, and the response.
AppendUpdate(k) ==
    /\ rec.app[k] = "written"
    /\ rec' = [rec EXCEPT !.file_size = @ + 1, !.app[k] = "done"]
    /\ RecOnly

\* CompleteRecording: the row is read (its status is not tested) and the
\* body parsed.
CompleteLookup ==
    /\ rec.comp = "sent"
    /\ rec' = [rec EXCEPT !.comp = "found"]
    /\ RecOnly

\* CompleteRecording: os.Stat gives the file's size.
CompleteStat ==
    /\ rec.comp = "found"
    /\ rec' = [rec EXCEPT !.fs = Len(rec.file), !.comp = "stat"]
    /\ RecOnly

\* CompleteRecording: UPDATE status = "ready", file_size = fileSize, and the
\* response.
CompleteUpdate ==
    /\ rec.comp = "stat"
    /\ rec' = [rec EXCEPT !.status = "ready", !.file_size = rec.fs, !.comp = "done"]
    /\ RecOnly

\* The handlers of the recording service, one step of one request.
RecordingServerStep ==
    \/ StartRecording
    \/ \E k \in Chunks : AppendLookup(k)
    \/ \E k \in Chunks : AppendWrite(k)
    \/ \E k \in Chunks : AppendUpdate(k)
    \/ CompleteLookup
    \/ CompleteStat
    \/ CompleteUpdate

\* ------------------------------------------- dashboard recorder (VideoRecorder)
\* startRecording: recordingsApi.start has answered, the MediaRecorder is
\* created and started.
RecorderStart ==
    /\ rec.status = "recording"
    /\ rec.recorder = "off"
    /\ rec' = [rec EXCEPT !.recorder = "on"]
    /\ RecOnly

\* ondataavailable: the chunk is kept and its upload started; nothing waits
\* for the handler's await.
RecorderData ==
    /\ rec.recorder = "on"
    /\ rec.emitted < MaxChunks
    /\ rec' = [rec EXCEPT !.emitted = @ + 1, !.app[rec.emitted + 1] = "sent"]
    /\ RecOnly

\* stopRecording: MediaRecorder.stop() delivers the data gathered since the
\* last chunk (if any) to ondataavailable and then calls onstop, which sends
\* the completion request.
RecorderStop(data) ==
    /\ rec.recorder = "on"
    /\ IF data /\ rec.emitted < MaxChunks
       THEN rec' = [rec EXCEPT !.emitted = @ + 1, !.app[rec.emitted + 1] = "sent",
                               !.comp = "sent", !.recorder = "stopped"]
       ELSE rec' = [rec EXCEPT !.comp = "sent", !.recorder = "stopped"]
    /\ RecOnly

\* ------------------------------------------------------- rate limiter
\* rl.visitors is the visitors map (key -> [count, lastSeen]).  The other
\* fields record what happened: rl.admitted the times at which each key's
\* requests were passed on, rl.reqs the number of requests of each key,
\* rl.lastAt and rl.lastOut the time and the outcome of its last request.
RlOnly ==
    /\ UNCHANGED <<now, lastSaveTime, saved, lastEvent, alertCooldowns, newAlerts, ear_history, calc,
                   writing, rec>>
    /\ UNCHANGED <<hubVars, cliVars, prodVars, poolVars>>

\* A test that also starts a new count when the gap is exactly the window.
windowOverInclusive(v, t) == t - v.lastSeen >= RlWindow

\* time.Since(v.lastSeen) > rl.config.Window
windowOver(v, t) == t - v.lastSeen > RlWindow

\* An update that leaves lastSeen alone once the count is over the maximum.
touchCountedOnly(v, t) ==
    [count |-> v.count + 1, lastSeen |-> IF v.count + 1 > RlMax THEN v.lastSeen ELSE t]

\* v.count++; v.lastSeen = time.Now()
touch(v, t) == [count |-> v.count + 1, lastSeen |-> t]

\* The visitors map after a request of key k at time t.
visit(vs, k, t) ==
    [x \in DOMAIN vs \cup {k} |->
        IF x # k THEN vs[x]
        ELSE IF k \notin DOMAIN vs \/ windowOver(vs[k], t)
             THEN [count |-> 1, lastSeen |-> t]
             ELSE touch(vs[k], t)]

\* The request is passed on (c.Next()) unless its count is over the maximum.
passes(vs, k, t) == visit(vs, k, t)[k].count <= RlMax

\* Handler: one request of key k.
RlRequest(k) ==
    /\ rl.reqs["ip1"] + rl.reqs["ip2"] < MaxReqs
    /\ rl' = [rl EXCEPT !.visitors = visit(rl.visitors, k, now),
                        !.admitted[k] = IF passes(rl.visitors, k, now) THEN Append(@, now) ELSE @,
                        !.reqs[k] = @ + 1,
                        !.lastAt[k] = now,
                        !.lastOut[k] = IF passes(rl.visitors, k, now) THEN "admitted" ELSE "rejected"]
    /\ RlOnly

\* cleanup: the ticker fired; visitors not seen for two windows are deleted.
RlCleanup ==
    /\ rl' = [rl EXCEPT !.visitors =
                 [x \in {y \in DOMAIN rl.visitors : ~(now - rl.visitors[y].lastSeen > 2 * RlWindow)}
                    |-> rl.visitors[x]]]
    /\ RlOnly

\* ------------------------------------------------------------ specification
\* Everything but the scorer call.
InitBase ==
    /\ pc = [c \in Clients |-> "idle"]
    /\ meeting = [c \in Clients |-> NoMeeting]
    /\ connUp = [c \in Clients |-> FALSE]
    /\ send = [c \in Clients |-> <<>>]
    /\ closed = [c \in Clients |-> FALSE]
    /\ relayMsg = [c \in Clients |-> NoMsg]
    /\ wp = [c \in Clients |-> "none"]
    /\ lastOut = [c \in Clients |-> 0]
    /\ rooms = [m \in {} |-> {}]
    /\ bq = <<>>
    /\ hubPc = "select"
    /\ hubCl = NoClient
    /\ hubMsg = NoMsg
    /\ hubTodo = {}
    /\ hubSent = {}
    /\ hubSkip = {}
    /\ ppc = "idle"
    /\ proom = NoMeeting
    /\ nProd = 0
    /\ nRelay = 0
    /\ frameQ = <<>>
    /\ worker = [w \in Workers |-> 0]
    /\ fstate = [f \in Frames |-> "new"]
    /\ fowner = [f \in Frames |-> NoClient]
    /\ procCount = [f \in Frames |-> 0]
    /\ nextFrame = 1
    /\ lastSubmit = [f |-> 0, outcome |-> "none", ret |-> "none"]
    /\ now = StartTime
    /\ lastSaveTime = [m \in {} |-> 0]
    /\ saved = [m \in Meetings |-> <<>>]
    /\ lastEvent = [kind |-> "none", m |-> NoMeeting]
    /\ alertCooldowns = [k \in {} |-> 0]
    /\ newAlerts = {}
    /\ ear_history = <<>>
    /\ writing = {}
    /\ rec = [status |-> "none", file |-> <<>>, file_size |-> 0,
              app |-> [k \in Chunks |-> "none"], comp |-> "none", fs |-> 0,
              recorder |-> "off", emitted |-> 0]
    /\ rl = [visitors |-> [k \in {} |-> 0],
             admitted |-> [k \in RlKeys |-> <<>>],
             reqs |-> [k \in RlKeys |-> 0],
             lastAt |-> [k \in RlKeys |-> 0],
             lastOut |-> [k \in RlKeys |-> "none"]]

Init ==
    /\ InitBase
    /\ calc = [op |-> "none"]

\* The start of a scorer call: a feature record has been drawn.
InitScore ==
    /\ InitBase
    /\ calc \in {[op |-> "features", in |-> r] : r \in FeatureRecords}

HubStep ==
    \/ \E c \in Clients : HubRecvRegister(c)
    \/ HubAddClient
    \/ \E c \in Clients : HubRecvUnregister(c)
    \/ HubRemoveClient
    \/ HubRecvBroadcast
    \/ \E c \in Clients : HubSend(c)
    \/ HubRangeDone

Lifecycle(c) ==
    \/ \E m \in Meetings : Connect(c, m)
    \/ ClientJoined(c)
    \/ ClientReadErr(c)
    \/ ClientLeft(c)

RelayStep(c) ==
    \/ \E t \in RelayTypes : ClientRelay(c, t)
    \/ ClientRelayEnq(c)

WritePumpStep(c) ==
    \/ WpWrite(c)
    \/ WpWriteErr(c)
    \/ WpChanClosed(c)

ProducerStep ==
    \/ \E m \in Meetings : ProducerCall(m, TRUE)
    \/ ProducerEnq
    \/ ProducerThrottle

\* The hub with three connections: register, unregister and the participant
\* notifications they broadcast.
NextRoom3 ==
    \/ HubStep
    \/ \E c \in Clients : Lifecycle(c)
    \/ \E c \in Clients : WritePumpStep(c)

SpecRoom3 == Init /\ [][NextRoom3]_vars

\* The same with two connections.
NextRoom ==
    \/ HubStep
    \/ \E c \in FeedClients : Lifecycle(c)
    \/ \E c \in FeedClients : WritePumpStep(c)

SpecRoom == Init /\ [][NextRoom]_vars

\* The hub fed by the pipeline producer, one connection.
NextFeed ==
    \/ HubStep
    \/ \E c \in PoolClients : Lifecycle(c)
    \/ \E c \in PoolClients : WritePumpStep(c)
    \/ ProducerStep

SpecFeed == Init /\ [][NextFeed]_vars

\* The hub with client messages of a non-frame type, two connections.
NextRelay ==
    \/ HubStep
    \/ \E c \in FeedClients : Lifecycle(c)
    \/ \E c \in FeedClients : RelayStep(c)
    \/ \E c \in FeedClients : WritePumpStep(c)

SpecRelay == Init /\ [][NextRelay]_vars

\* The frame intake queue and its workers, fed by one connection.
FrameStep(c) ==
    \/ ClientFrame(c)
    \/ ClientFrameInvalid(c)

WorkerStep(w) ==
    \/ WorkerTake(w)
    \/ \E ok \in BOOLEAN : WorkerDone(w, ok)

NextPool ==
    \/ HubStep
    \/ \E c \in PoolClients : Lifecycle(c)
    \/ \E c \in PoolClients : WritePumpStep(c)
    \/ \E c \in PoolClients : FrameStep(c)
    \/ \E w \in Workers : WorkerStep(w)

SpecPool == Init /\ [][NextPool]_vars

\* The subscriber handler with its sampling of the saves, the hub taking the
\* batches off the broadcast channel (no client is connected), and the clock.
NextThrottle ==
    \/ ProducerStep
    \/ HubRecvBroadcast
    \/ Tick

SpecThrottle == Init /\ [][NextThrottle]_vars

\* The dashboard's attention handler with the clock.
NextAlert ==
    \/ \E f \in PlainFaces : Attention(f)
    \/ Tick

SpecAlert == Init /\ [][NextAlert]_vars

\* The attention handler on every kind of face of track t1 and on the plain
\* faces of track t2, the clock standing still.
NextTrigger == \E f \in TriggerFaces : Attention(f)

SpecTrigger == Init /\ [][NextTrigger]_vars

\* The documented scorer applied to one feature record.
NextScore == Score

SpecScore == InitScore /\ [][NextScore]_vars

\* One track's PERCLOS calculator fed with EAR samples.
NextPerclos == \E e \in EarSamples : Update(e)

SpecPerclos == Init /\ [][NextPerclos]_vars

\* Faces of results are stored and charted.
NextMetric == \E f \in MetricFaces : SaveMetric(f) \/ ChartPoint(f)

SpecMetric == Init /\ [][NextMetric]_vars

\* One connection sending frames, frame messages without a frame and
\* unparsable messages, and the subscriber handler given results good and
\* bad, with the hub.
NextMalformed ==
    \/ HubStep
    \/ \E c \in PoolClients : Lifecycle(c)
    \/ \E c \in PoolClients : WritePumpStep(c)
    \/ \E c \in PoolClients : FrameStep(c)
    \/ \E c \in PoolClients : ClientBadMessage(c)
    \/ \E str \in Meetings \cup {InvalidId}, payloadOk \in BOOLEAN : ProducerCall(str, payloadOk)
    \/ ProducerEnq
    \/ ProducerThrottle

SpecMalformed == Init /\ [][NextMalformed]_vars

\* The subscriber handler, the save goroutines it starts, the hub taking the
\* batches off the broadcast channel, and the clock.
NextPersist ==
    \/ ProducerStep
    \/ HubRecvBroadcast
    \/ Tick
    \/ \E w \in writing : SaveReturns(w)

SpecPersist == Init /\ [][NextPersist]_vars

\* The recording service with clients that send append and completion
\* requests at any time.
NextRecording ==
    \/ RecordingServerStep
    \/ \E k \in Chunks : ApiAppend(k)
    \/ ApiComplete

SpecRecording == Init /\ [][NextRecording]_vars

\* The recording service with the dashboard's recorder as its client.
NextRecorder ==
    \/ RecordingServerStep
    \/ RecorderStart
    \/ RecorderData
    \/ \E data \in BOOLEAN : RecorderStop(data)

SpecRecorder == Init /\ [][NextRecorder]_vars

\* The rate limiter with requests of two keys, its cleanup and the clock.
NextLimit ==
    \/ \E k \in RlKeys : RlRequest(k)
    \/ RlCleanup
    \/ Tick

SpecLimit == Init /\ [][NextLimit]_vars

\* The hub's register and unregister cases under callers that call Register
\* and Unregister in any order, two clients.
NextHubApi ==
    \/ \E c \in FeedClients : HubRecvRegister(c)
    \/ HubAddClient
    \/ \E c \in FeedClients : HubRecvUnregister(c)
    \/ HubRemoveClient
    \/ \E c \in FeedClients, m \in Meetings, op \in {"register", "unregister"} : HubCall(c, m, op)

SpecHubApi == Init /\ [][NextHubApi]_vars

\* --------------------------------------------------------------- fairness
\* The hub goroutine runs whenever it can, and a case of its select that
\* stays ready is eventually taken (Go picks among the ready cases uniformly
\* at random).  A caller blocked sending on a channel that stays free gets
\* through.  A read or a write on a connection that is closed returns an
\* error, and a range over a closed, drained channel ends.  Nothing is assumed
\* of a subscriber's write pump on a live connection: it may never drain.
HubFairness ==
    /\ WF_vars(HubAddClient)
    /\ WF_vars(HubRemoveClient)
    /\ WF_vars(\E c \in Clients : HubSend(c))
    /\ WF_vars(HubRangeDone)
    /\ WF_vars(HubRecvBroadcast)
    /\ \A c \in FeedClients : WF_vars(HubRecvRegister(c))
    /\ \A c \in FeedClients : WF_vars(HubRecvUnregister(c))

CallerFairness(c) ==
    /\ WF_vars(ClientJoined(c))
    /\ WF_vars(ClientLeft(c))
    /\ WF_vars(ClientReadErr(c) /\ ~connUp[c])
    /\ WF_vars(WpWriteErr(c) /\ ~connUp[c])
    /\ WF_vars(WpChanClosed(c))

FairRoom ==
    /\ Init
    /\ [][NextRoom]_vars
    /\ HubFairness
    /\ \A c \in FeedClients : CallerFairness(c)

\* A worker that can take a frame takes one, and processFrameAsync returns
\* (the HTTP client has a 10 s timeout).
FairPool ==
    /\ Init
    /\ [][NextPool]_vars
    /\ \A w \in Workers : WF_vars(WorkerTake(w))
    /\ \A w \in Workers : WF_vars(\E ok \in BOOLEAN : WorkerDone(w, ok))

\* ----------------------------------------------------------------- claims
\* The register of c has been applied by the hub and its unregister has not:
\* read off the callers' positions and the operation the hub is applying,
\* not off the room map.
Applied(c) ==
    \/ /\ pc[c] \in {"joined", "read", "relay", "unregister"}
       /\ ~(hubPc = "add" /\ hubCl = c)
    \/ /\ hubPc = "remove"
       /\ hubCl = c

Members(m) == {c \in Clients : Applied(c) /\ meeting[c] = m}

RoomOf(m) == IF m \in DOMAIN rooms THEN rooms[m] ELSE {}

\* A step of the range loop that visits client c.
Visits(c) == hubPc = "range" /\ c \in hubTodo /\ c \notin hubTodo'

\* C1: when the hub processes broadcast(M, msg), the clients it tries are
\* exactly the clients currently registered to M; each of them whose channel
\* is not full gets msg appended to its channel, and a message is appended to
\* a channel in no other way (no client of another meeting, none unregistered).
C1_BroadcastReachesRoom ==
    /\ [](hubPc = "range" =>
            /\ hubTodo \cup hubSent \cup hubSkip = Members(hubMsg.room)
            /\ hubTodo \cap (hubSent \cup hubSkip) = {}
            /\ hubSent \cap hubSkip = {})
    /\ [][\A c \in Clients :
            /\ (Visits(c) /\ Len(send[c]) < SendCap) =>
                  (send'[c] = Append(send[c], hubMsg) /\ c \in hubSent')
            /\ Len(send'[c]) > Len(send[c]) =>
                  /\ Visits(c)
                  /\ c \in Members(hubMsg.room)
                  /\ send'[c] = Append(send[c], hubMsg)]_vars

\* C1 witness: one broadcast has been enqueued to three registered subscribers.
C1_Witness ==
    /\ hubPc = "range"
    /\ hubTodo = {}
    /\ hubSent = Clients
    /\ \A c \in Clients : hubMsg \in {send[c][i] : i \in 1..Len(send[c])}

\* C2: in the range loop a client whose channel is full is skipped and nothing
\* else changes: the loop goes on with the clients still to visit, and each
\* of those with room in its channel gets the message.
C2_FullChannelDropsOwnCopyOnly ==
    /\ [][\A c \in Clients :
            (Visits(c) /\ Len(send[c]) >= SendCap) =>
                /\ send' = send
                /\ hubTodo' = hubTodo \ {c}
                /\ hubPc' = "range"
                /\ hubMsg' = hubMsg
                /\ hubSent' = hubSent
                /\ rooms' = rooms
                /\ closed' = closed]_vars
    /\ [][\A c \in Clients :
            (Visits(c) /\ hubSkip # {} /\ Len(send[c]) < SendCap) =>
                send'[c] = Append(send[c], hubMsg)]_vars
    /\ [](hubPc = "range" => hubTodo \cup hubSent \cup hubSkip = RoomOf(hubMsg.room))

\* C2 witness: a broadcast is over in which one subscriber was full and
\* another one got the message.
C2_Witness ==
    /\ hubPc = "range"
    /\ hubTodo = {}
    /\ hubSkip # {}
    /\ hubSent # {}

\* C3: a caller blocked in Register, Unregister or BroadcastToMeeting always
\* gets through, whatever the subscribers' channels hold.
C3_CallsReturn ==
    \A c \in FeedClients :
        /\ (pc[c] = "register") ~> (pc[c] # "register")
        /\ (pc[c] = "joined") ~> (pc[c] # "joined")
        /\ (pc[c] = "unregister") ~> (pc[c] # "unregister")
        /\ (pc[c] = "left") ~> (pc[c] # "left")

\* C3 witness: a caller waits in Unregister while the hub is in a broadcast
\* that still has a subscriber with a full channel to visit.
C3_Witness ==
    \E c, d \in FeedClients :
        /\ pc[c] = "unregister"
        /\ hubPc = "range"
        /\ d \in hubTodo
        /\ Len(send[d]) = SendCap

\* C4: the room map changes only in a step that applies one whole register or
\* unregister, never during a broadcast, and whenever the hub is between
\* operations or in a broadcast the map is the membership that the applied
\* registers and unregisters give.
C4_OperationsSerialized ==
    /\ [][rooms' # rooms => (hubPc \in {"add", "remove"} /\ hubPc' = "select")]_vars
    /\ [][hubPc = "range" => (rooms' = rooms /\ closed' = closed)]_vars
    /\ [](hubPc \in {"select", "range"} => \A m \in Meetings : RoomOf(m) = Members(m))

\* C4 witness: a broadcast is being delivered while one caller waits in
\* Register and another in Unregister.
C4_Witness ==
    /\ hubPc = "range"
    /\ hubTodo # {}
    /\ \E c, d \in FeedClients : pc[c] = "register" /\ pc[d] = "unregister"

\* C5: a room exists exactly for the meetings with a registered client, and no
\* room is empty.
C5_RoomIffRegistered ==
    /\ \A m \in Meetings : (m \in DOMAIN rooms) <=> (Members(m) # {})
    /\ \A m \in DOMAIN rooms : rooms[m] # {}
    /\ DOMAIN rooms \subseteq Meetings

\* C5 witness: the room of a client that left is gone while another room exists.
C5_Witness ==
    \E c \in FeedClients :
        /\ closed[c]
        /\ meeting[c] \notin DOMAIN rooms
        /\ DOMAIN rooms # {}

PipelineIds(q) == [i \in 1..Len(SelectSeq(q, LAMBDA x : x.src = NoClient)) |->
                     SelectSeq(q, LAMBDA x : x.src = NoClient)[i].id]

Increasing(q) == \A i, j \in 1..Len(q) : i < j => q[i] < q[j]

\* C6: the pipeline batches a subscriber has been written and those waiting
\* in its channel are in the order the producer passed them to
\* BroadcastToMeeting (increasing batch number), each for the subscriber's
\* meeting and each one the producer has passed.
C6_DeliveredInProducerOrder ==
    \A c \in Clients :
        /\ Increasing(<<lastOut[c]>> \o PipelineIds(send[c]))
        /\ \A i \in 1..Len(send[c]) :
              /\ send[c][i].room = meeting[c]
              /\ send[c][i].id <= nProd

\* C6 witness: a subscriber has been written batch 1 and batch 2 waits in its
\* channel.
C6_Witness ==
    \E c \in FeedClients :
        /\ lastOut[c] = 1
        /\ PipelineIds(send[c]) = <<2>>

\* C7: once the connection of a connected client is lost, the client ends up
\* out of every room, with its channel closed and its write pump returned.
C7_DisconnectCleansUp ==
    \A c \in FeedClients :
        (pc[c] # "idle" /\ ~connUp[c]) ~>
            (/\ closed[c]
             /\ wp[c] = "done"
             /\ \A m \in DOMAIN rooms : c \notin rooms[m])

\* C7 witness: a write error has closed the connection of a client that is
\* still in its room with its read pump running.
C7_Witness ==
    \E c \in FeedClients :
        /\ wp[c] = "done"
        /\ pc[c] = "read"
        /\ ~connUp[c]
        /\ c \in RoomOf(meeting[c])

\* C8: when the hub takes a broadcast for a meeting that has no room, the
\* room map and every client's channel stay as they are and the hub is back
\* at its select.
C8_BroadcastNoRoomIsNoOp ==
    [][(hubPc = "select" /\ bq # <<>> /\ bq' # bq /\ Len(bq') < Len(bq)
          /\ Head(bq).room \notin DOMAIN rooms) =>
        /\ rooms' = rooms
        /\ send' = send
        /\ closed' = closed
        /\ hubPc' = "select"
        /\ hubTodo' = {}]_vars

\* C8 witness: every client has left, so the hub has taken the last "left"
\* notification when the room was gone, and is at its select.
C8_Witness ==
    /\ \A c \in FeedClients : pc[c] = "done"
    /\ bq = <<>>
    /\ hubPc = "select"
    /\ DOMAIN rooms = {}

\* A handleFrame call that handled frame f.
Submits(f) == nextFrame = f /\ nextFrame' = f + 1

Holders(f) == {w \in Workers : worker[w] = f}

\* C10: a frame accepted into the queue is taken by one worker, once, and its
\* processFrameAsync call returns, whatever happens to the client that sent it.
C10_AcceptedFrameProcessedOnce ==
    /\ [](\A f \in Frames :
            /\ procCount[f] <= 1
            /\ fstate[f] = "proc" => (Cardinality(Holders(f)) = 1 /\ procCount[f] = 1)
            /\ fstate[f] \in {"ok", "failed"} => (Holders(f) = {} /\ procCount[f] = 1)
            /\ fstate[f] = "queued" =>
                  (procCount[f] = 0 /\ Cardinality({i \in 1..Len(frameQ) : frameQ[i] = f}) = 1))
    /\ \A f \in Frames : (fstate[f] = "queued") ~> (fstate[f] \in {"ok", "failed"})

\* C10 witness: a frame is being processed after the client that sent it has
\* disconnected.
C10_Witness ==
    \E f \in Frames :
        /\ fstate[f] = "proc"
        /\ pc[fowner[f]] = "done"

\* The meeting of the frame a worker is processing.
MeetingOfWorker(w) == meeting[fowner[worker[w]]]

\* C11: no two workers are processing frames of the same meeting at the same
\* time.
C11_OneWorkerPerMeeting ==
    \A w1, w2 \in Workers :
        (w1 # w2 /\ worker[w1] # 0 /\ worker[w2] # 0) =>
            MeetingOfWorker(w1) # MeetingOfWorker(w2)

\* A step in which the handler samples the save of a batch.
Samples == ppc = "throttle" /\ ppc' = "idle"

Last(q) == q[Len(q)]

AttentionStep == now' = now /\ calc'.op = "attention"

\* The handler generated an alert of kind k for the face it handled.
Emitted(k) ==
    \E a \in newAlerts' : a.track = calc'.face.track /\ a.alert_type = alertTypeOf(k)

\* The trigger of kind k as the handler evaluated it.
Triggered(k) ==
    IF k = "drowsy" THEN calc'.drowsy ELSE IF k = "looking_away" THEN calc'.looking ELSE calc'.low

\* The pair of the handled face's track and kind k has fired before.
HasFired(k) == <<calc'.face.track, k>> \in DOMAIN alertCooldowns

LastFired(k) == alertCooldowns[<<calc'.face.track, k>>]

\* The cooldowns as the claims state them, in milliseconds.
StatedCooldown(k) == IF k = "low_attention" THEN 10000 ELSE 5000

\* The cooldown entry of kind k of the handled face is left as it was.
EntryKept(k) ==
    IF HasFired(k)
    THEN /\ <<calc'.face.track, k>> \in DOMAIN alertCooldowns'
         /\ alertCooldowns'[<<calc'.face.track, k>>] = LastFired(k)
    ELSE <<calc'.face.track, k>> \notin DOMAIN alertCooldowns'

C14_LowAttentionAlwaysCoFires ==
    [][(/\ AttentionStep
        /\ attentionScoreOf(calc'.face) < 40
        /\ (~HasFired("low_attention")
               \/ now - LastFired("low_attention") > StatedCooldown("low_attention")))
          => Emitted("low_attention")]_vars

\* C14 amended: drowsy and looking_away are each generated exactly when their
\* own trigger holds and their own cooldown is over, so the two may co-fire;
\* not_attentive is generated exactly when the score is below 40, neither of
\* the other two triggers holds and its own cooldown is over; a kind's
\* cooldown entry changes only when that kind is generated.
C14_CoFireExceptLowAttention ==
    [][AttentionStep =>
          /\ \A k \in {"drowsy", "looking_away"} :
                Emitted(k) <=>
                    (Triggered(k) /\ (~HasFired(k) \/ now - LastFired(k) > StatedCooldown(k)))
          /\ Emitted("low_attention") <=>
                (/\ attentionScoreOf(calc'.face) < 40
                 /\ ~calc'.drowsy
                 /\ ~calc'.looking
                 /\ (~HasFired("low_attention")
                        \/ now - LastFired("low_attention") > StatedCooldown("low_attention")))
          /\ \A k \in AlertKeys : ~Emitted(k) => EntryKept(k)]_vars

\* C14 witness: drowsy and looking_away were generated together for a face
\* whose score is below 40 and whose not_attentive pair never fired.
C14_Witness ==
    /\ calc.op = "attention"
    /\ attentionScoreOf(calc.face) < 40
    /\ {a.alert_type : a \in newAlerts} = {"drowsy", "looking_away"}
    /\ <<calc.face.track, "low_attention">> \notin DOMAIN alertCooldowns

\* The triggers as the claims state them, read off the face.
StatedLookingAway(f) ==
    \/ f.gaze = "false"
    \/ (f.yaw.some /\ (f.yaw.v > 30 \/ f.yaw.v < 0 - 30))

StatedDrowsy(f) == f.drowsy = "true"

StatedSeverity(t) ==
    IF t = "not_attentive" THEN "info" ELSE IF t = "looking_away" THEN "warning" ELSE "critical"

C16_ScoreAlwaysInRange ==
    calc.op = "score" => calc.value.ok /\ calc.value.v >= 0 /\ calc.value.v <= 10000

\* The worked example: yaw 40, pitch 5, EAR 0.28, gaze (0.05, 0.02), face
\* tracked.
ExampleFeatures ==
    [yaw |-> Some(40), pitch |-> Some(5), gaze |-> Some(<<5, 2>>), ear |-> Some(28),
     is_present |-> TRUE]

\* The dashboard's view of the example face: its score in whole percent and
\* its yaw, looking at the camera and not drowsy.
ExampleFace ==
    [track |-> "t1", score |-> Some((calc.value.v + 50) \div 100), gaze |-> "true",
     yaw |-> calc.in.yaw, drowsy |-> "false"]

Near(x, target) == x >= target - 50 /\ x < target + 50

Repeat(e, n) == [i \in 1..n |-> e]

\* The window's length and the returned fraction and verdict.
PerclosAsStated ==
    /\ Len(ear_history) <= 60
    /\ calc.op = "perclos" =>
          /\ calc.len = Len(ear_history)
          /\ calc.closed = Cardinality({i \in 1..Len(ear_history) : ear_history[i] < 25})
          /\ calc.drowsy <=> (calc.closed * 5 > 4 * calc.len)
          /\ ear_history = Repeat(10, 48) \o Repeat(30, 12) =>
                calc.closed * 5 = 4 * calc.len /\ ~calc.drowsy

\* A step keeps the samples in order and drops only the oldest one, and only
\* from a window of 60.
MostRecentKept ==
    IF Len(ear_history) < 60
    THEN SubSeq(ear_history', 1, Len(ear_history)) = ear_history
         /\ Len(ear_history') = Len(ear_history) + 1
    ELSE SubSeq(ear_history', 1, 59) = Tail(ear_history)
         /\ Len(ear_history') = 60

\* C18: the window holds at most the 60 most recent samples, perclos is the
\* fraction of them below 0.25, and 48 samples of 0.1 followed by 12 of 0.3
\* give exactly 0.8, which is not drowsy because the test is strict.
C18_PerclosWindow == []PerclosAsStated /\ [][MostRecentKept]_vars

C18_Witness ==
    /\ calc.op = "perclos"
    /\ ear_history = Repeat(10, 48) \o Repeat(30, 12)
    /\ ~calc.drowsy

\* The sub-scores the same operation gives the face f.
GazeScoreOf(op, f) == IF op = "metric" THEN savedGazeScore(f) ELSE chartGazeScore(f)
HeadPoseScoreOf(op, f) == IF op = "metric" THEN savedHeadPoseScore(f) ELSE chartHeadPoseScore(f)

\* C19: a face without a gaze or without a head pose gets 0 for that
\* sub-score, so never more than the same face with the feature present.
C19_MissingFeatureScoredZero ==
    calc.op \in {"metric", "chart"} =>
        /\ calc.face.gaze = "absent" =>
              /\ calc.gazeScore = 0
              /\ \A g \in {"true", "false"} :
                    calc.gazeScore <= GazeScoreOf(calc.op, [calc.face EXCEPT !.gaze = g])
        /\ ~calc.face.pose.some =>
              /\ calc.headPoseScore = 0
              /\ \A y \in PoseYaws, p \in PosePitches :
                    calc.headPoseScore
                        <= HeadPoseScoreOf(calc.op, [calc.face EXCEPT !.pose = Some(<<y, p>>)])

\* A step that takes in an unparsable client message, a frame message
\* without a string frame, or a pipeline result that is unparsable or has an
\* invalid meeting id.
MalformedStep ==
    \/ lastEvent' # lastEvent /\ lastEvent'.kind \in {"bad_client_msg", "bad_result"}
    \/ lastSubmit' # lastSubmit /\ lastSubmit'.outcome = "invalid"

\* C20: a malformed message is dropped with no other effect: nothing is
\* enqueued for the workers or for broadcast, nothing is persisted, the
\* last-save times stay, the connection stays open and the client registered.
C20_MalformedDropped ==
    [][MalformedStep =>
         /\ UNCHANGED <<frameQ, fstate, fowner, nextFrame, worker, procCount>>
         /\ UNCHANGED <<bq, ppc, proom, nProd, saved, lastSaveTime>>
         /\ UNCHANGED <<rooms, pc, connUp, closed, send, wp, meeting>>]_vars

C20_Witness ==
    /\ lastEvent.kind = "bad_result"
    /\ lastEvent.m \in Meetings
    /\ lastEvent.m \in DOMAIN lastSaveTime
    /\ \E c \in PoolClients : pc[c] = "read" /\ connUp[c] /\ c \in RoomOf(meeting[c])
    /\ frameQ # <<>>
    /\ lastSubmit.outcome = "invalid"

\* A step in which the processing of a frame ends in failure.
FailureStep == \E f \in Frames : fstate[f] = "proc" /\ fstate'[f] = "failed"

\* Every worker is at its loop, idle or on a frame, and an idle worker takes
\* the next frame whenever one is queued.
PoolIntact ==
    \A w \in Workers :
        /\ worker[w] >= 0
        /\ (worker[w] = 0 /\ frameQ # <<>>) => ENABLED WorkerTake(w)

\* C21: a failure while processing a frame ends only that frame's
\* processing: its worker is back at the queue, the other workers, the other
\* frames, the queue and the hub are untouched, and the pool keeps all its
\* workers.
C21_FailureEndsOnlyThatFrame ==
    /\ []PoolIntact
    /\ [][FailureStep =>
            \E w \in Workers :
                /\ worker[w] > 0
                /\ fstate' = [fstate EXCEPT ![worker[w]] = "failed"]
                /\ worker' = [worker EXCEPT ![w] = 0]
                /\ UNCHANGED <<frameQ, fowner, procCount, nextFrame>>
                /\ UNCHANGED <<hubVars, cliVars>>]_vars

\* As many frames as there are workers have failed, and a later frame was
\* processed to the end.
C21_Witness ==
    \E g \in Frames :
        /\ fstate[g] = "ok"
        /\ Cardinality({f \in Frames : f < g /\ fstate[f] = "failed"}) >= NumWorkers

\* The handler can always take its next step, whatever writes are under way:
\* only a full broadcast channel makes it wait.
HandlerNeverWaitsForWrite ==
    /\ (ppc = "idle" /\ nProd < MaxMsgs) => \A m \in Meetings : ENABLED ProducerCall(m, TRUE)
    /\ (ppc = "send" /\ Len(bq) < BcastCap) => ENABLED ProducerEnq
    /\ ppc = "throttle" => ENABLED ProducerThrottle

\* C22: every parsed batch is put on the broadcast channel before the
\* sampling decision is taken, the write runs beside the handler, and a write
\* that is skipped, slow or failing changes nothing of the broadcasts.
C22_BroadcastBeforeSampling ==
    /\ []HandlerNeverWaitsForWrite
    /\ [][/\ (ppc = "send" /\ ppc' # "send") =>
                /\ ppc' = "throttle"
                /\ bq' = Append(bq, Msg(MessageTypeAttention, proom, NoClient, "result", nProd))
                /\ UNCHANGED <<lastSaveTime, saved, writing>>
          /\ (lastSaveTime' # lastSaveTime \/ saved' # saved \/ ~(writing' \subseteq writing)) =>
                ppc = "throttle"
          /\ (ppc = "throttle" /\ ppc' # "throttle") => UNCHANGED <<bq, hubVars, nProd>>
          /\ (writing' # writing /\ writing' \subseteq writing) =>
                UNCHANGED <<bq, hubVars, ppc, proom, nProd, lastSaveTime, saved>>]_vars

\* A write is under way, and a later batch of the same meeting, not sampled,
\* is on the broadcast channel.
C22_Witness ==
    /\ writing # {}
    /\ ppc = "throttle"
    /\ ~shouldSave(lastSaveTime, proom, now)
    /\ bq # <<>>
    /\ bq[Len(bq)] = Msg(MessageTypeAttention, proom, NoClient, "result", nProd)
    /\ \E w \in writing : w.m = proom

\* C23: an attention or alert message delivered to a subscriber comes from
\* the pipeline path, never from a connected client.
C23_AttentionOnlyFromPipeline ==
    \A c \in Clients : \A i \in 1..Len(send[c]) :
        send[c][i].type \in {MessageTypeAttention, MessageTypeAlert} => send[c][i].src = NoClient

\* C24: once the recording is ready no append changes the file or file_size,
\* whatever the interleaving of the requests, so file_size is the size of
\* the file from then on and no append is at work on the file.
C24_NoAppendAfterReady ==
    rec.status = "ready" =>
        /\ rec.file_size = Len(rec.file)
        /\ \A k \in Chunks : rec.app[k] \notin {"checked", "written"}

\* C30: when the recorder's completion request is sent every chunk it
\* emitted has been appended, so no chunk is rejected and the completed
\* recording holds them all.
C30_ChunksAppendedBeforeComplete ==
    /\ rec.comp # "none" => \A k \in 1..rec.emitted : rec.app[k] = "done"
    /\ \A k \in Chunks : rec.app[k] # "rejected"
    /\ rec.status = "ready" => \A k \in 1..rec.emitted : \E i \in 1..Len(rec.file) : rec.file[i] = k

\* C25: for each key, any RlMax + 1 admitted requests span more than the
\* window, so no interval of the window's length holds more than RlMax
\* admissions.
C25_AtMostMaxPerWindow ==
    \A k \in RlKeys : \A i \in 1..Len(rl.admitted[k]) :
        i + RlMax <= Len(rl.admitted[k]) =>
            rl.admitted[k][i + RlMax] - rl.admitted[k][i] > RlWindow

\* A key was admitted RlMax times, rejected, and later admitted again.
C25_Witness ==
    \E k \in RlKeys :
        /\ Len(rl.admitted[k]) > RlMax
        /\ rl.reqs[k] > Len(rl.admitted[k])

\* The step is a request of key k.
RequestOf(k) == rl'.reqs[k] = rl.reqs[k] + 1

\* C29: a rejected request adds to the count and refreshes lastSeen, and
\* after a rejection the key's next request is admitted exactly when it comes
\* more than the window after the previous one.
C29_RejectionsExtendTheBlock ==
    [][\A k \in RlKeys : RequestOf(k) =>
          /\ rl'.lastOut[k] = "rejected" =>
                /\ k \in DOMAIN rl.visitors
                /\ rl'.visitors[k] = [count |-> rl.visitors[k].count + 1, lastSeen |-> now]
          /\ rl.lastOut[k] = "rejected" =>
                (rl'.lastOut[k] = "admitted" <=> now - rl.lastAt[k] > RlWindow)]_vars

\* A key has been rejected twice in a row, the second time more than the
\* window after its last admitted request.
C29_Witness ==
    \E k \in RlKeys :
        /\ rl.lastOut[k] = "rejected"
        /\ k \in DOMAIN rl.visitors
        /\ rl.visitors[k].count = RlMax + 2
        /\ rl.lastAt[k] - rl.admitted[k][Len(rl.admitted[k])] > RlWindow

\* C26: removing a client that is not a member of its room changes neither
\* the rooms nor the client's channel, so no channel is closed twice.
C26_UnregisterNonMemberIsNoOp ==
    [][(hubPc = "remove" /\ hubPc' # "remove" /\ hubCl \notin RoomOf(meeting[hubCl])) =>
          (rooms' = rooms /\ closed' = closed /\ hubPc' = "select")]_vars

\* C27: the hub never sends on a closed channel: a client whose channel is
\* closed is in no room and is not among the targets of the broadcast being
\* processed, and the Run loop never panics.
C27_NoSendOnClosedChannel ==
    /\ hubPc # "panic"
    /\ \A c \in Clients :
          closed[c] => /\ \A m \in DOMAIN rooms : c \notin rooms[m]
                       /\ c \notin hubTodo

\* The hub is delivering the "left" notification of a client whose channel
\* it has closed to the clients that remain in the room.
C27_Witness ==
    /\ hubPc = "range"
    /\ hubMsg.action = "left"
    /\ hubMsg.src \in Clients
    /\ closed[hubMsg.src]
    /\ hubTodo # {}

\* The hub takes the notification of client c with the given action off the
\* broadcast channel and starts processing it.
Processing(c, a) ==
    /\ hubPc = "select"
    /\ bq # <<>>
    /\ bq' = Tail(bq)
    /\ Head(bq).type = MessageTypeParticipant
    /\ Head(bq).src = c
    /\ Head(bq).action = a

\* The hub ends the range loop of a broadcast.
EndOfRange == hubPc = "range" /\ hubTodo = {} /\ hubPc' = "select"

\* C28 as stated: the "joined" notification of a client is addressed and
\* delivered to that client too, and its "left" notification is never
\* addressed to it.
C28_JoinedReachesNewcomer ==
    [][/\ \A c \in Clients : Processing(c, "joined") => (hubPc' = "range" /\ c \in hubTodo')
       /\ (EndOfRange /\ hubMsg.action = "joined") => hubMsg.src \in hubSent
       /\ \A c \in Clients : Processing(c, "left") => c \notin hubTodo']_vars

\* C28, amended: the "joined" notification of a client is processed after
\* its registration was applied and is addressed to the client exactly when
\* its unregistration has not been taken yet, and to the room's members; the
\* "left" notification is processed after the removal and is addressed to
\* the remaining members only.
C28_NotificationsFollowMembership ==
    [][\A c \in Clients :
          /\ Processing(c, "joined") =>
                /\ pc[c] \notin {"idle", "register", "joined"}
                /\ c \in hubTodo' <=> pc[c] \in {"read", "relay", "unregister"}
                /\ hubTodo' = RoomOf(meeting[c])
          /\ Processing(c, "left") =>
                /\ pc[c] = "done"
                /\ closed[c]
                /\ c \notin hubTodo'
                /\ hubTodo' = RoomOf(meeting[c]) \ {c}]_vars

\* The "joined" notification of the second client of a room is being sent
\* to both clients of the room.
C28_Witness ==
    /\ hubPc = "range"
    /\ hubMsg.action = "joined"
    /\ hubMsg.src = 2
    /\ hubTodo \cup hubSent \cup hubSkip = {1, 2}

=============================================================================
